---- MODULE Spec2Model ----
(***************************************************************************)
(* The test-vector batch generator (package builders, type Generator):     *)
(* Group fans a named group of vector definitions out to one goroutine per *)
(* group and one per definition; generateVariants runs a definition once   *)
(* per protocol version and merges equal results; the loop in Group writes *)
(* each merged vector to a scratch file, compares it with the file already *)
(* in the output directory and moves it into place under the overwrite     *)
(* mode, removing the file of the opposite broken status.                  *)
(*                                                                         *)
(* Strings are sequences of one-character strings, so that file names are  *)
(* built, prefixed and stripped as the code builds them.                   *)
(***************************************************************************)
EXTENDS Integers, Sequences, FiniteSets, TLC

\* ------------------------------------------------------------------ bounds

\* I/O operations that may fail in one run.
MaxIOFailures == 1

\* ------------------------------------------------------- program constants

OverwriteNone == 0
OverwriteUpdate == 1
OverwriteForce == 2

brokenVectorPrefix == <<"x", "-", "-">>

HintIncorrect == "incorrect"

\* The separator and the extension of the format "%s--%s--%s.json".
Sep == <<"-", "-">>

JsonExt == <<".", "j", "s", "o", "n">>

\* Metadata.Gen of a definition nobody has stamped yet.
NoGen == "nil"

\* The builder of a definition that is not in a round of the loop.
NoBuilder == 0

\* ----------------------------------------------------------------- strings

HasPrefix(s, p) == Len(s) >= Len(p) /\ SubSeq(s, 1, Len(p)) = p

\* strings.Replace(s, p, "", 1) for a string s that starts with p.
StripPrefix(s, p) == SubSeq(s, Len(p) + 1, Len(s))

\* ---------------------------------------------------------------- versions

\* The protocol versions the generator knows, oldest first.
KnownProtocolVersions == <<1, 2, 3>>

Versions == { KnownProtocolVersions[i] : i \in 1 .. Len(KnownProtocolVersions) }

VersionIDs == <<"p", "q", "r">>

\* ProtocolVersion.ID
VersionID(v) == <<VersionIDs[v]>>

Bodies == {1, 2}

\* ------------------------------------------------------------ definitions

GroupNames == {<<"g">>, <<"h">>}

Defs == {1, 2}

\* Metadata.ID of the metadata object of definition d.
CaseID(d) == IF d = 1 THEN <<"a">> ELSE <<"b">>

IsBroken(hints) == \E i \in 1 .. Len(hints) : hints[i] = HintIncorrect

\* A choice of the tag that takes the last variant of the list.
FirstVariantLast(vs) == vs[Len(vs)]

\* vector.Pre.Variants[0]: the variant whose ID goes into the file name.
FirstVariant(vs) == vs[1]

\* A vectorFilename that ignores the incorrect hint.
vectorFilenameMissingMarker(group, id, hints, v) ==
    group \o Sep \o id \o Sep \o VersionID(v) \o JsonExt

\* The file name of a vector whose first variant is version v.
vectorFilename(group, id, hints, v) ==
    LET filename == group \o Sep \o id \o Sep \o VersionID(v) \o JsonExt
    IN  IF IsBroken(hints) THEN brokenVectorPrefix \o filename ELSE filename

\* The name removePrevious removes: the marker stripped or prepended.
previousFilename(group, id, hints, v) ==
    LET filename == vectorFilename(group, id, hints, v)
    IN  IF HasPrefix(filename, brokenVectorPrefix)
        THEN StripPrefix(filename, brokenVectorPrefix)
        ELSE brokenVectorPrefix \o filename

\* ------------------------------------------------------------------ vectors

\* A schema.TestVector: the content body, Pre.Variants (the versions whose
\* IDs are the variant tags) and Meta (the Metadata object it points to).
Vector(body, vs, meta) == [body |-> body, variants |-> vs, meta |-> meta]

\* json: the serialized form keeps every field of the vector; the metadata
\* is read through the pointer when the vector is serialized.
Marshal(v, md) == [body |-> v.body, variants |-> v.variants, meta |-> md[v.meta]]

\* A vectorBytesNoMeta that leaves Meta in the bytes compared.
vectorBytesNoMetaKeepsMeta(content) == content

\* parseVectorFile followed by v.Meta = nil and json.Marshal.
vectorBytesNoMeta(content) == [content EXCEPT !.meta = NoGen]

\* A comparison that looks at the body only.
vectorsEqualBodyOnly(a, b) == a.body = b.body

\* vectorsEqual: the bytes without metadata are equal.
vectorsEqualContents(a, b) == vectorBytesNoMeta(a) = vectorBytesNoMeta(b)

\* A digest taken without setting the variants aside.
HashWithVariants(v, md) == [body |-> v.body, meta |-> md[v.meta], variants |-> v.variants]

\* blake2b.Sum256 of the vector serialized with Pre.Variants cleared; the
\* digest is modelled by the bytes hashed (no collisions).
HashNoVariants(v, md) == [body |-> v.body, meta |-> md[v.meta]]

\* A merge that drops the tags of the later vector.
mergeVariantsDropped(merged, variants) == merged

\* A merge that puts the tags of the later vector first.
mergeVariantsReversed(merged, variants) == variants \o merged

\* append(merged.Pre.Variants, variants...)
mergeVariants(merged, variants) == merged \o variants

\* The uniq map of generateVariants after the vectors result[1..n]: a
\* function from digests to merged vectors.
RECURSIVE uniqAfter(_, _, _)
uniqAfter(result, n, md) ==
    IF n = 0 THEN << >>
    ELSE LET uniq == uniqAfter(result, n - 1, md)
             v == result[n]
             hash == HashNoVariants(v, md)
         IN  IF hash \in DOMAIN uniq
             THEN [uniq EXCEPT ![hash] =
                     [@ EXCEPT !.variants = mergeVariants(@, v.variants)]]
             ELSE uniq @@ (hash :> v)

\* The vectors generateVariants may return: the values of uniq in any order
\* (Go iterates a map in no fixed order).
IsOrderingOf(seq, f) ==
    /\ Len(seq) = Cardinality(DOMAIN f)
    /\ \A h \in DOMAIN f : \E i \in 1 .. Len(seq) : seq[i] = f[h]

\* --------------------------------------------------------------- the state

VARIABLES
    OutputPath,     \* Generator.OutputPath ("" writes to stdout)
    flags,          \* the -f and -u options NewGenerator was given
    Mode,           \* Generator.Mode
    IncludeFilter,  \* Generator.IncludeFilter
    wg,             \* Generator.wg, the counter of the outer WaitGroup
    vectors,        \* the definitions each Group call is given, by group
    defs,           \* the VectorDef values of the caller
    metadata,       \* the Metadata objects the definitions point to
    mainpc,         \* where the calling goroutine is
    gpc,            \* where each Group call and its goroutine are
    generate,       \* Group's generate slice, by group
    tmpDir,         \* the scratch directory of each group
    tmpFiles,       \* the files of each scratch directory
    inner,          \* the counter of the WaitGroup of each group goroutine
    dpc,            \* where each definition goroutine is
    sv,             \* b.SupportedVersions inside generateVariants
    result,         \* generateVariants' result slice
    variants,       \* the slice generateVariants returned
    heap,           \* the builders allocated so far in this process
    builder,        \* the builder each definition's loop round was given
    cur,            \* index of the vector the write loop is at
    dir,            \* the files of the output directory
    dir0,           \* the output directory when the run started
    run,            \* "first", or "second" for a later run of the program
    prev,           \* the definitions and the failed I/O of the run before
    logs,           \* what was logged for each vector
    ops,            \* renames into and removals from the output directory
    stdout,         \* the documents printed to stdout, in order
    ioFailures,     \* I/O operations that failed so far
    crashed         \* the process was terminated

cfgVars == <<OutputPath, flags, Mode, IncludeFilter, vectors, defs, dir0, run, prev>>

\* genData, the generation data of the build, stamped into every vector; a
\* later run is a run of a later build.
genData == IF run = "first" THEN "build1" ELSE "build2"

mainVars == <<mainpc, wg>>

groupVars == <<gpc, generate, tmpDir, inner>>

genVars == <<sv, result, variants, metadata, heap, builder>>

outVars == <<dir, ops, stdout>>

vars == <<cfgVars, mainVars, groupVars, genVars, outVars, tmpFiles, dpc, cur,
          logs, ioFailures, crashed>>

\* The group whose Group call is given definition d.
GroupOf(d) ==
    CHOOSE g \in GroupNames : \E i \in 1 .. Len(vectors[g]) : vectors[g][i] = d

\* regexp.MatchString: a compiled filter is the set of strings it matches.
MatchString(filter, s) == s \in filter.matches

\* A switch that tests the -u flag before the -f flag.
NewGeneratorModeUpdateFirst(force, update) ==
    IF update THEN OverwriteUpdate
    ELSE IF force THEN OverwriteForce ELSE OverwriteNone

\* NewGenerator's switch over the -f and -u flags.
NewGeneratorMode(force, update) ==
    IF force THEN OverwriteForce
    ELSE IF update THEN OverwriteUpdate ELSE OverwriteNone

\* ---------------------------------------------------- Group: validation

HasOneFunc(v) == v.MessageFunc # v.TipsetFunc

\* A filter test that looks at the ID only.
filteredOutIDOnly(filter, id, group) ==
    /\ ~filter.isNil
    /\ ~MatchString(filter, id)

\* The filter test of Group's loop: TRUE when the definition is skipped.
filteredOut(filter, id, group) ==
    /\ ~filter.isNil
    /\ ~MatchString(filter, id)
    /\ ~MatchString(filter, group)

\* A loop that filters without checking the generation functions.
RECURSIVE validateNoCheck(_, _, _, _, _, _)
validateNoCheck(group, vs, n, ds, md, filter) ==
    IF n = 0 THEN [panic |-> FALSE, generate |-> << >>]
    ELSE LET before == validateNoCheck(group, vs, n - 1, ds, md, filter)
             v == ds[vs[n]]
         IN  IF filteredOut(filter, md[v.Metadata].ID, group) THEN before
             ELSE [before EXCEPT !.generate = Append(@, vs[n])]

\* A loop that applies the filter before it checks the generation functions.
RECURSIVE validateFilterFirst(_, _, _, _, _, _)
validateFilterFirst(group, vs, n, ds, md, filter) ==
    IF n = 0 THEN [panic |-> FALSE, generate |-> << >>]
    ELSE LET before == validateFilterFirst(group, vs, n - 1, ds, md, filter)
             v == ds[vs[n]]
         IN  IF before.panic THEN before
             ELSE IF filteredOut(filter, md[v.Metadata].ID, group) THEN before
             ELSE IF ~HasOneFunc(v) THEN [before EXCEPT !.panic = TRUE]
             ELSE [before EXCEPT !.generate = Append(@, vs[n])]

\* Group's loop over vectors[1..n]: whether it panicked, and the generate
\* slice it built.
RECURSIVE validate(_, _, _, _, _, _)
validate(group, vs, n, ds, md, filter) ==
    IF n = 0 THEN [panic |-> FALSE, generate |-> << >>]
    ELSE LET before == validate(group, vs, n - 1, ds, md, filter)
             v == ds[vs[n]]
         IN  IF before.panic THEN before
             ELSE IF ~HasOneFunc(v) THEN [before EXCEPT !.panic = TRUE]
             ELSE IF filteredOut(filter, md[v.Metadata].ID, group) THEN before
             ELSE [before EXCEPT !.generate = Append(@, vs[n])]

Validated(g) == validate(g, vectors[g], Len(vectors[g]), defs, metadata, IncludeFilter)

\* ------------------------------------------------------------------- Init

\* The ways the caller spreads its definitions over Group calls.
Layouts ==
    { (<<"g">> :> <<1, 2>>) @@ (<<"h">> :> << >>),
      (<<"g">> :> <<1>>) @@ (<<"h">> :> <<2>>) }

\* Generation functions: one that ignores the version, one whose result
\* changed after version 1.
GenFuncs ==
    { [v \in Versions |-> 1],
      [v \in Versions |-> IF v = 1 THEN 1 ELSE 2] }

HintLists == { << >>, <<HintIncorrect>> }

DefChoices(d) ==
    IF d = 1
    THEN [ Metadata : {d}, SupportedVersions : { << >> }, Hints : HintLists,
           MessageFunc : {TRUE}, TipsetFunc : {FALSE}, gen : GenFuncs ]
    ELSE [ Metadata : {d}, SupportedVersions : { <<1>> }, Hints : { << >> },
           MessageFunc : BOOLEAN, TipsetFunc : {TRUE},
           gen : { [v \in Versions |-> 1] } ]

Filters ==
    { [isNil |-> TRUE, matches |-> {}],
      [isNil |-> FALSE, matches |-> {<<"a">>}],
      [isNil |-> FALSE, matches |-> {<<"h">>}] }

\* The option settings of the runs: none, -u, and -f together with -u.
FlagChoices ==
    { [force |-> FALSE, update |-> FALSE], [force |-> FALSE, update |-> TRUE],
      [force |-> TRUE, update |-> TRUE] }

Init ==
    /\ OutputPath \in { << >>, <<"o">> }
    /\ flags \in FlagChoices
    /\ Mode = NewGeneratorMode(flags.force, flags.update)
    /\ IncludeFilter \in Filters
    /\ vectors \in Layouts
    /\ defs \in { f \in [Defs -> UNION {DefChoices(d) : d \in Defs}] :
                    \A d \in Defs : f[d] \in DefChoices(d) }
    /\ metadata = [d \in Defs |-> [ID |-> CaseID(d), Gen |-> NoGen]]
    /\ run = "first"
    /\ prev = [defs |-> defs, failures |-> 0]
    /\ dir = << >>
    /\ dir0 = dir
    /\ wg = 0
    /\ mainpc = "run"
    /\ gpc = [g \in GroupNames |-> "uncalled"]
    /\ generate = [g \in GroupNames |-> << >>]
    /\ tmpDir = [g \in GroupNames |-> "none"]
    /\ tmpFiles = [g \in GroupNames |-> << >>]
    /\ inner = [g \in GroupNames |-> 0]
    /\ dpc = [d \in Defs |-> "idle"]
    /\ sv = [d \in Defs |-> << >>]
    /\ result = [d \in Defs |-> << >>]
    /\ variants = [d \in Defs |-> << >>]
    /\ heap = 0
    /\ builder = [d \in Defs |-> NoBuilder]
    /\ cur = [d \in Defs |-> 0]
    /\ logs = [d \in Defs |-> [v \in Versions |-> {}]]
    /\ ops = {}
    /\ stdout = << >>
    /\ ioFailures = 0
    /\ crashed = FALSE

\* ------------------------------------------------- the calling goroutine

CanFail == ioFailures < MaxIOFailures

\* Group(g, ...) panics in its validation loop.
GroupPanic(g) ==
    /\ ~crashed /\ mainpc = "run" /\ gpc[g] = "uncalled"
    /\ Validated(g).panic
    /\ gpc' = [gpc EXCEPT ![g] = "panicked"]
    /\ mainpc' = "panicking"
    /\ UNCHANGED <<cfgVars, wg, generate, tmpDir, inner, genVars, outVars,
                   tmpFiles, dpc, cur, logs, ioFailures, crashed>>

\* A Group that goes on to g.wg.Add(1) and the go statement without vectors.
GroupNoVectorsSpawns(g) ==
    /\ ~crashed /\ mainpc = "run" /\ gpc[g] = "uncalled"
    /\ ~Validated(g).panic
    /\ Len(Validated(g).generate) = 0
    /\ wg' = wg + 1
    /\ gpc' = [gpc EXCEPT ![g] = "registered"]
    /\ UNCHANGED <<cfgVars, mainpc, generate, tmpDir, inner, genVars, outVars,
                   tmpFiles, dpc, cur, logs, ioFailures, crashed>>

\* Group(g, ...) finds no vector to generate and returns.
GroupNoVectors(g) ==
    /\ ~crashed /\ mainpc = "run" /\ gpc[g] = "uncalled"
    /\ ~Validated(g).panic
    /\ Len(Validated(g).generate) = 0
    /\ gpc' = [gpc EXCEPT ![g] = "empty"]
    /\ UNCHANGED <<cfgVars, mainVars, generate, tmpDir, inner, genVars, outVars,
                   tmpFiles, dpc, cur, logs, ioFailures, crashed>>

\* Group(g, ...) registers the group with g.wg and starts its goroutine.
GroupSpawn(g) ==
    /\ ~crashed /\ mainpc = "run" /\ gpc[g] = "uncalled"
    /\ ~Validated(g).panic
    /\ Len(Validated(g).generate) > 0
    /\ generate' = [generate EXCEPT ![g] = Validated(g).generate]
    /\ wg' = wg + 1
    /\ gpc' = [gpc EXCEPT ![g] = "registered"]
    /\ UNCHANGED <<cfgVars, mainpc, tmpDir, inner, genVars, outVars,
                   tmpFiles, dpc, cur, logs, ioFailures, crashed>>

\* The caller recovers the panic of Group and goes on.
Recover ==
    /\ ~crashed /\ mainpc = "panicking"
    /\ mainpc' = "run"
    /\ UNCHANGED <<cfgVars, wg, groupVars, genVars, outVars,
                   tmpFiles, dpc, cur, logs, ioFailures, crashed>>

\* Nobody recovers the panic: the Go runtime terminates the process.
PanicExit ==
    /\ ~crashed /\ mainpc = "panicking"
    /\ crashed' = TRUE
    /\ UNCHANGED <<cfgVars, mainVars, groupVars, genVars, outVars,
                   tmpFiles, dpc, cur, logs, ioFailures>>

\* Close: g.wg.Wait() is entered, and returns once the counter is zero.
Close ==
    /\ ~crashed /\ mainpc = "run"
    /\ \A g \in GroupNames : gpc[g] # "uncalled"
    /\ mainpc' = "waiting"
    /\ UNCHANGED <<cfgVars, wg, groupVars, genVars, outVars,
                   tmpFiles, dpc, cur, logs, ioFailures, crashed>>

\* A Wait that returns whatever the counter is.
waitOverEarly(counter) == TRUE

\* sync.WaitGroup.Wait returns when the counter is zero.
waitOver(counter) == counter = 0

CloseReturn ==
    /\ ~crashed /\ mainpc = "waiting"
    /\ waitOver(wg)
    /\ mainpc' = "closed"
    /\ UNCHANGED <<cfgVars, wg, groupVars, genVars, outVars,
                   tmpFiles, dpc, cur, logs, ioFailures, crashed>>

\* ---------------------------------------------------- the group goroutine

\* A test of the output path that is true whatever the path.
ToDiskAlways == TRUE

\* g.OutputPath != ""
ToDisk == OutputPath # << >>

InSeq(seq, x) == \E i \in 1 .. Len(seq) : seq[i] = x

\* The goroutine of Group creates the scratch directory and starts one
\* goroutine per definition of generate.
GroupTaskStart(g) ==
    /\ ~crashed /\ gpc[g] = "registered"
    /\ tmpDir' = [tmpDir EXCEPT ![g] = IF ToDisk THEN "exists" ELSE @]
    /\ inner' = [inner EXCEPT ![g] = Len(generate[g])]
    /\ dpc' = [d \in Defs |-> IF InSeq(generate[g], d) THEN "start" ELSE dpc[d]]
    /\ gpc' = [gpc EXCEPT ![g] = "running"]
    /\ UNCHANGED <<cfgVars, mainVars, generate, genVars, outVars,
                   tmpFiles, cur, logs, ioFailures, crashed>>

\* A return after the failed ioutil.TempDir without the deferred g.wg.Done.
TempDirFailNoDone(g) ==
    /\ ~crashed /\ gpc[g] = "registered"
    /\ ToDisk /\ CanFail
    /\ ioFailures' = ioFailures + 1
    /\ gpc' = [gpc EXCEPT ![g] = "exited"]
    /\ UNCHANGED <<cfgVars, mainVars, generate, tmpDir, inner, genVars, outVars,
                   tmpFiles, dpc, cur, logs, crashed>>

\* ioutil.TempDir fails: the goroutine logs and returns (wg.Done is deferred).
TempDirFail(g) ==
    /\ ~crashed /\ gpc[g] = "registered"
    /\ ToDisk /\ CanFail
    /\ ioFailures' = ioFailures + 1
    /\ wg' = wg - 1
    /\ gpc' = [gpc EXCEPT ![g] = "exited"]
    /\ UNCHANGED <<cfgVars, mainpc, generate, tmpDir, inner, genVars, outVars,
                   tmpFiles, dpc, cur, logs, crashed>>

\* wg.Wait() returns; the deferred os.RemoveAll and g.wg.Done run.
GroupTaskExit(g) ==
    /\ ~crashed /\ gpc[g] = "running"
    /\ waitOver(inner[g])
    /\ tmpDir' = [tmpDir EXCEPT ![g] = IF @ = "exists" THEN "removed" ELSE @]
    /\ tmpFiles' = [tmpFiles EXCEPT ![g] = << >>]
    /\ wg' = wg - 1
    /\ gpc' = [gpc EXCEPT ![g] = "exited"]
    /\ UNCHANGED <<cfgVars, mainpc, generate, inner, genVars, outVars,
                   dpc, cur, logs, ioFailures, crashed>>

\* The deferred os.RemoveAll fails: logged, the directory stays.
RemoveAllFail(g) ==
    /\ ~crashed /\ gpc[g] = "running"
    /\ waitOver(inner[g])
    /\ tmpDir[g] = "exists" /\ CanFail
    /\ ioFailures' = ioFailures + 1
    /\ wg' = wg - 1
    /\ gpc' = [gpc EXCEPT ![g] = "exited"]
    /\ UNCHANGED <<cfgVars, mainpc, generate, tmpDir, inner, genVars, outVars,
                   tmpFiles, dpc, cur, logs, crashed>>

\* ----------------------------------------------- the definition goroutine

Range(f) == { f[x] : x \in DOMAIN f }

Without(f, x) == [y \in DOMAIN f \ {x} |-> f[y]]

\* generateVariants, lines 438-443: the default versions, and the stamp
\* written through the Metadata pointer.
supportedVersions(b) ==
    IF Len(b.SupportedVersions) = 0 THEN KnownProtocolVersions
    ELSE b.SupportedVersions

GenerateStart(d) ==
    /\ ~crashed /\ dpc[d] = "start"
    /\ sv' = [sv EXCEPT ![d] = supportedVersions(defs[d])]
    /\ metadata' = [metadata EXCEPT ![defs[d].Metadata].Gen = genData]
    /\ dpc' = [dpc EXCEPT ![d] = "gen"]
    /\ UNCHANGED <<cfgVars, mainVars, groupVars, result, variants, heap, builder,
                   outVars, tmpFiles, cur, logs, ioFailures, crashed>>

\* A constructor that hands out one builder again and again.
MessageVectorShared(h) == 1

\* MessageVector and TipsetVector allocate a builder: the next object of the
\* heap, which no earlier call has returned.
MessageVector(h) == h + 1

TipsetVector(h) == h + 1

\* The switch of lines 455-465, for a definition with a generation function.
NewBuilder(b, h) == IF b.MessageFunc THEN MessageVector(h) ELSE TipsetVector(h)

\* The builder is created and handed to the generation function.
Build(d) ==
    /\ builder' = [builder EXCEPT ![d] = NewBuilder(defs[d], heap)]
    /\ heap' = IF builder'[d] > heap THEN builder'[d] ELSE heap

\* One round of the loop over b.SupportedVersions: a new builder for the
\* version, the generation function, Finish.
GenVersion(d) ==
    /\ ~crashed /\ dpc[d] = "gen"
    /\ Len(result[d]) < Len(sv[d])
    /\ Build(d)
    /\ LET version == sv[d][Len(result[d]) + 1]
       IN  result' = [result EXCEPT ![d] =
                Append(@, Vector(defs[d].gen[version], <<version>>, defs[d].Metadata))]
    /\ UNCHANGED <<cfgVars, mainVars, groupVars, sv, variants, metadata, outVars,
                   tmpFiles, dpc, cur, logs, ioFailures, crashed>>

\* The generation function fails: a failed assertion calls os.Exit(1), a
\* panic in the goroutine is recovered by nobody. Either ends the process.
GenFail(d) ==
    /\ ~crashed /\ dpc[d] = "gen"
    /\ Len(result[d]) < Len(sv[d])
    /\ Build(d)
    /\ crashed' = TRUE
    /\ dpc' = [dpc EXCEPT ![d] = "failed"]
    /\ UNCHANGED <<cfgVars, mainVars, groupVars, sv, result, variants, metadata,
                   outVars, tmpFiles, cur, logs, ioFailures>>

\* A loop over the versions that is left after the first version.
allVersionsDoneEarly(res, versions) == Len(res) >= 1

\* The loop over b.SupportedVersions is over: one vector per version.
allVersionsDone(res, versions) == Len(res) = Len(versions)

\* generateVariants, lines 472-503: the uniq map and the slice returned.
Dedup(d) ==
    /\ ~crashed /\ dpc[d] = "gen"
    /\ allVersionsDone(result[d], sv[d])
    /\ LET uniq == uniqAfter(result[d], Len(result[d]), metadata)
           n == Cardinality(DOMAIN uniq)
       IN  \E ret \in [1 .. n -> Range(uniq)] :
              /\ IsOrderingOf(ret, uniq)
              /\ variants' = [variants EXCEPT ![d] = ret]
    /\ builder' = [builder EXCEPT ![d] = NoBuilder]
    /\ cur' = [cur EXCEPT ![d] = 1]
    /\ dpc' = [dpc EXCEPT ![d] = IF ToDisk THEN "open" ELSE "print"]
    /\ UNCHANGED <<cfgVars, mainVars, groupVars, sv, result, metadata, heap, outVars,
                   tmpFiles, logs, ioFailures, crashed>>

\* A return without the deferred wg.Done.
ReturnNoDone(d) ==
    /\ dpc' = [dpc EXCEPT ![d] = "done"]
    /\ inner' = inner
    /\ cur' = cur

\* The goroutine returns: the deferred wg.Done of the group's WaitGroup.
Return(d) ==
    /\ dpc' = [dpc EXCEPT ![d] = "done"]
    /\ inner' = [inner EXCEPT ![GroupOf(d)] = @ - 1]
    /\ cur' = cur

\* A continue that leaves the loop and returns.
NextVectorAbort(d) == Return(d)

\* continue, or the end of the loop body: the next vector, or the return.
NextVector(d) ==
    IF cur[d] < Len(variants[d])
    THEN /\ cur' = [cur EXCEPT ![d] = @ + 1]
         /\ dpc' = [dpc EXCEPT ![d] = "open"]
         /\ inner' = inner
    ELSE Return(d)

\* Stdout mode: every vector is printed, and the goroutine returns.
Println(d) ==
    /\ ~crashed /\ dpc[d] = "print"
    /\ stdout' = stdout \o
          [i \in 1 .. Len(variants[d]) |->
              [def |-> d, doc |-> Marshal(variants[d][i], metadata)]]
    /\ Return(d)
    /\ UNCHANGED <<cfgVars, mainVars, gpc, generate, tmpDir, genVars, dir, ops,
                   tmpFiles, logs, ioFailures, crashed>>

\* The vector the write loop is at, its first variant, and its names.
Vec(d) == variants[d][cur[d]]

First(d) == FirstVariant(Vec(d).variants)

Filename(d) ==
    vectorFilename(GroupOf(d), metadata[defs[d].Metadata].ID, defs[d].Hints, First(d))

Previous(d) ==
    previousFilename(GroupOf(d), metadata[defs[d].Metadata].ID, defs[d].Hints, First(d))

Log(d, msgs) == logs' = [logs EXCEPT ![d][First(d)] = @ \cup msgs]

\* os.OpenFile, enc.Encode and out.Close on the scratch file succeed.
WriteTmp(d) ==
    /\ ~crashed /\ dpc[d] = "open"
    /\ tmpFiles' = [tmpFiles EXCEPT ![GroupOf(d)] =
                      (Filename(d) :> Marshal(Vec(d), metadata)) @@ @]
    /\ dpc' = [dpc EXCEPT ![d] = "stat"]
    /\ UNCHANGED <<cfgVars, mainVars, groupVars, genVars, outVars,
                   cur, logs, ioFailures, crashed>>

\* os.OpenFile fails: logged, continue.
OpenFail(d) ==
    /\ ~crashed /\ dpc[d] = "open" /\ CanFail
    /\ ioFailures' = ioFailures + 1
    /\ Log(d, {"failed to open file"})
    /\ NextVector(d)
    /\ UNCHANGED <<cfgVars, mainVars, gpc, generate, tmpDir, genVars, outVars,
                   tmpFiles, crashed>>

\* What a scratch file holds when enc.Encode failed half way.
PartialFile == [body |-> 0, variants |-> << >>, meta |-> [ID |-> << >>, Gen |-> NoGen]]

\* enc.Encode fails: the file was created; logged, continue.
EncodeFail(d) ==
    /\ ~crashed /\ dpc[d] = "open" /\ CanFail
    /\ ioFailures' = ioFailures + 1
    /\ tmpFiles' = [tmpFiles EXCEPT ![GroupOf(d)] = (Filename(d) :> PartialFile) @@ @]
    /\ Log(d, {"failed to write json"})
    /\ NextVector(d)
    /\ UNCHANGED <<cfgVars, mainVars, gpc, generate, tmpDir, genVars, outVars,
                   crashed>>

\* A switch in which OverwriteForce compares like the other modes.
decideForceCompares(exists, mode, eql) ==
    IF ~exists THEN "write"
    ELSE IF eql THEN "no changes"
    ELSE IF mode = OverwriteNone THEN "vector changed"
    ELSE "write"

\* A switch in which OverwriteNone overwrites a file that differs.
decideNoneOverwrites(exists, mode, eql) ==
    IF ~exists THEN "write"
    ELSE IF mode = OverwriteForce THEN "write"
    ELSE IF eql THEN "no changes"
    ELSE "overwriting"

\* A switch in which OverwriteNone does not create a missing file either.
decideNoneNeverCreates(exists, mode, eql) ==
    IF mode = OverwriteNone
    THEN IF exists /\ eql THEN "no changes" ELSE "vector changed"
    ELSE IF ~exists THEN "write"
    ELSE IF mode = OverwriteForce THEN "write"
    ELSE IF eql THEN "no changes"
    ELSE "overwriting"

\* A switch in which OverwriteUpdate keeps a file that differs.
decideUpdateKeeps(exists, mode, eql) ==
    IF ~exists THEN "write"
    ELSE IF mode = OverwriteForce THEN "write"
    ELSE IF eql THEN "no changes"
    ELSE "vector changed"

\* A switch in which OverwriteUpdate overwrites a file that is equal.
decideUpdateAlways(exists, mode, eql) ==
    IF ~exists THEN "write"
    ELSE IF mode = OverwriteForce THEN "write"
    ELSE IF mode = OverwriteUpdate THEN "overwriting"
    ELSE IF eql THEN "no changes"
    ELSE "vector changed"

\* The switch over os.Stat(existing), lines 319-349, when no call fails:
\* "write", or the message logged before continue or before the write.
decide(exists, mode, eql) ==
    IF ~exists THEN "write"
    ELSE IF mode = OverwriteForce THEN "write"
    ELSE IF eql THEN "no changes"
    ELSE IF mode = OverwriteNone THEN "vector changed"
    ELSE "overwriting"

Decision(d) ==
    LET exists == Filename(d) \in DOMAIN dir
    IN  decide(exists, Mode,
               exists /\ vectorsEqualContents(tmpFiles[GroupOf(d)][Filename(d)],
                                              dir[Filename(d)]))

CheckExisting(d) ==
    /\ ~crashed /\ dpc[d] = "stat"
    /\ IF Decision(d) \in {"no changes", "vector changed"}
       THEN /\ Log(d, {Decision(d)})
            /\ NextVector(d)
       ELSE /\ IF Decision(d) = "write" THEN logs' = logs ELSE Log(d, {Decision(d)})
            /\ dpc' = [dpc EXCEPT ![d] = "rename"]
            /\ UNCHANGED <<cur, inner>>
    /\ UNCHANGED <<cfgVars, mainVars, gpc, generate, tmpDir, genVars, outVars,
                   tmpFiles, ioFailures, crashed>>

\* os.Stat fails with an error other than "not exist": logged, continue.
StatFail(d) ==
    /\ ~crashed /\ dpc[d] = "stat" /\ CanFail
    /\ ioFailures' = ioFailures + 1
    /\ Log(d, {"failed unexpectedly"})
    /\ NextVector(d)
    /\ UNCHANGED <<cfgVars, mainVars, gpc, generate, tmpDir, genVars, outVars,
                   tmpFiles, crashed>>

\* An error of vectorsEqual that is logged without a continue.
EqualFailWrites(d) ==
    /\ ~crashed /\ dpc[d] = "stat" /\ CanFail
    /\ Filename(d) \in DOMAIN dir
    /\ Mode # OverwriteForce
    /\ ioFailures' = ioFailures + 1
    /\ Log(d, {"failed to check equality"})
    /\ dpc' = [dpc EXCEPT ![d] = "rename"]
    /\ UNCHANGED <<cfgVars, mainVars, groupVars, genVars, outVars,
                   tmpFiles, cur, crashed>>

\* vectorsEqual returns an error (a file cannot be read or parsed).
EqualFail(d) ==
    /\ ~crashed /\ dpc[d] = "stat" /\ CanFail
    /\ Filename(d) \in DOMAIN dir
    /\ Mode # OverwriteForce
    /\ ioFailures' = ioFailures + 1
    /\ Log(d, {"failed to check equality"})
    /\ NextVector(d)
    /\ UNCHANGED <<cfgVars, mainVars, gpc, generate, tmpDir, genVars, outVars,
                   tmpFiles, crashed>>

\* os.Rename(tmp, existing) succeeds.
Rename(d) ==
    /\ ~crashed /\ dpc[d] = "rename"
    /\ dir' = (Filename(d) :> tmpFiles[GroupOf(d)][Filename(d)]) @@ dir
    /\ tmpFiles' = [tmpFiles EXCEPT ![GroupOf(d)] = Without(@, Filename(d))]
    /\ ops' = ops \cup {[op |-> "rename", name |-> Filename(d), def |-> d]}
    /\ dpc' = [dpc EXCEPT ![d] = "remove"]
    /\ UNCHANGED <<cfgVars, mainVars, groupVars, genVars, stdout,
                   cur, logs, ioFailures, crashed>>

\* os.Rename fails: logged, and the loop body goes on.
RenameFail(d) ==
    /\ ~crashed /\ dpc[d] = "rename" /\ CanFail
    /\ ioFailures' = ioFailures + 1
    /\ Log(d, {"failed to move"})
    /\ dpc' = [dpc EXCEPT ![d] = "remove"]
    /\ UNCHANGED <<cfgVars, mainVars, groupVars, genVars, outVars,
                   tmpFiles, cur, crashed>>

\* removePrevious succeeds (a missing file is no error), then "wrote".
RemovePrevious(d) ==
    /\ ~crashed /\ dpc[d] = "remove"
    /\ IF Previous(d) \in DOMAIN dir
       THEN /\ dir' = Without(dir, Previous(d))
            /\ ops' = ops \cup {[op |-> "remove", name |-> Previous(d), def |-> d]}
       ELSE UNCHANGED <<dir, ops>>
    /\ Log(d, {"wrote"})
    /\ NextVector(d)
    /\ UNCHANGED <<cfgVars, mainVars, gpc, generate, tmpDir, genVars, stdout,
                   tmpFiles, ioFailures, crashed>>

\* os.Remove fails: logged, then "wrote".
RemovePreviousFail(d) ==
    /\ ~crashed /\ dpc[d] = "remove" /\ CanFail
    /\ Previous(d) \in DOMAIN dir
    /\ ioFailures' = ioFailures + 1
    /\ Log(d, {"failed to remove previous", "wrote"})
    /\ NextVector(d)
    /\ UNCHANGED <<cfgVars, mainVars, gpc, generate, tmpDir, genVars, outVars,
                   tmpFiles, crashed>>

\* Any step of the goroutine of definition d.
DefStep(d) ==
    \/ GenerateStart(d) \/ GenVersion(d) \/ GenFail(d) \/ Dedup(d)
    \/ Println(d)
    \/ WriteTmp(d) \/ OpenFail(d) \/ EncodeFail(d)
    \/ CheckExisting(d) \/ StatFail(d) \/ EqualFail(d)
    \/ Rename(d) \/ RenameFail(d)
    \/ RemovePrevious(d) \/ RemovePreviousFail(d)

\* Any step of the goroutine of group g.
GroupStep(g) ==
    \/ GroupTaskStart(g) \/ TempDirFail(g)
    \/ GroupTaskExit(g) \/ RemoveAllFail(g)

\* ------------------------------------------------------------ a second run

\* The definitions of a later run: definition 1 may have its hints and its
\* generation function changed.
LaterDefs ==
    { f \in [Defs -> UNION {DefChoices(d) : d \in Defs}] :
        /\ f[2] = defs[2]
        /\ f[1] \in DefChoices(1)
        /\ f[1].SupportedVersions = defs[1].SupportedVersions }

\* The program has returned from Close and exited; it is started again, with
\* the same flags and the same Group calls, on the directory it left.
Rerun ==
    /\ ~crashed /\ mainpc = "closed" /\ run = "first"
    /\ run' = "second"
    /\ prev' = [defs |-> defs, failures |-> ioFailures]
    /\ defs' \in LaterDefs
    /\ dir0' = dir
    /\ metadata' = [d \in Defs |-> [ID |-> CaseID(d), Gen |-> NoGen]]
    /\ wg' = 0
    /\ mainpc' = "run"
    /\ gpc' = [g \in GroupNames |-> "uncalled"]
    /\ generate' = [g \in GroupNames |-> << >>]
    /\ tmpDir' = [g \in GroupNames |-> "none"]
    /\ tmpFiles' = [g \in GroupNames |-> << >>]
    /\ inner' = [g \in GroupNames |-> 0]
    /\ dpc' = [d \in Defs |-> "idle"]
    /\ sv' = [d \in Defs |-> << >>]
    /\ result' = [d \in Defs |-> << >>]
    /\ variants' = [d \in Defs |-> << >>]
    /\ heap' = 0
    /\ builder' = [d \in Defs |-> NoBuilder]
    /\ cur' = [d \in Defs |-> 0]
    /\ logs' = [d \in Defs |-> [v \in Versions |-> {}]]
    /\ ops' = {}
    /\ stdout' = << >>
    /\ UNCHANGED <<OutputPath, flags, Mode, IncludeFilter, vectors, dir, ioFailures,
                   crashed>>

\* ------------------------------------------------------ the specification

Next ==
    \/ \E g \in GroupNames :
          \/ GroupPanic(g) \/ GroupNoVectors(g) \/ GroupSpawn(g)
          \/ GroupStep(g)
    \/ Recover \/ PanicExit \/ Close \/ CloseReturn \/ Rerun
    \/ \E d \in Defs : DefStep(d)

Spec == Init /\ [][Next]_vars

\* ------------------------------------------- generateVariants on its own

\* Lists of supported versions: every list of distinct known versions.
VersionLists ==
    { s \in UNION { [1 .. n -> Versions] : n \in 0 .. Len(KnownProtocolVersions) } :
        \A i, j \in 1 .. Len(s) : i # j => s[i] # s[j] }

\* generateVariants is entered for definition 1 of group "g", with any list
\* of supported versions and any generation function.
InitGen ==
    /\ OutputPath = <<"o">>
    /\ flags = [force |-> FALSE, update |-> FALSE]
    /\ Mode = NewGeneratorMode(flags.force, flags.update)
    /\ IncludeFilter = [isNil |-> TRUE, matches |-> {}]
    /\ vectors = (<<"g">> :> <<1>>) @@ (<<"h">> :> <<2>>)
    /\ defs \in { f \in [Defs -> UNION {DefChoices(d) : d \in Defs} \cup
                          [ Metadata : {1}, SupportedVersions : VersionLists,
                            Hints : { << >> }, MessageFunc : {TRUE},
                            TipsetFunc : {FALSE}, gen : [Versions -> Bodies] ]] :
                    /\ f[1].Metadata = 1
                    /\ f[2] \in DefChoices(2) /\ HasOneFunc(f[2]) }
    /\ metadata = [d \in Defs |-> [ID |-> CaseID(d), Gen |-> NoGen]]
    /\ run = "first"
    /\ prev = [defs |-> defs, failures |-> 0]
    /\ dir = << >>
    /\ dir0 = dir
    /\ wg = 1
    /\ mainpc = "run"
    /\ gpc = (<<"g">> :> "running") @@ (<<"h">> :> "uncalled")
    /\ generate = (<<"g">> :> <<1>>) @@ (<<"h">> :> << >>)
    /\ tmpDir = (<<"g">> :> "exists") @@ (<<"h">> :> "none")
    /\ tmpFiles = [g \in GroupNames |-> << >>]
    /\ inner = (<<"g">> :> 1) @@ (<<"h">> :> 0)
    /\ dpc = [d \in Defs |-> IF d = 1 THEN "start" ELSE "idle"]
    /\ sv = [d \in Defs |-> << >>]
    /\ result = [d \in Defs |-> << >>]
    /\ variants = [d \in Defs |-> << >>]
    /\ heap = 0
    /\ builder = [d \in Defs |-> NoBuilder]
    /\ cur = [d \in Defs |-> 0]
    /\ logs = [d \in Defs |-> [v \in Versions |-> {}]]
    /\ ops = {}
    /\ stdout = << >>
    /\ ioFailures = 0
    /\ crashed = FALSE

NextGen ==
    \E d \in Defs :
        GenerateStart(d) \/ GenVersion(d) \/ GenFail(d) \/ Dedup(d)

SpecGen == InitGen /\ [][NextGen]_vars

\* ------------------------------------------------- the paths on their own

\* vectorPath: filepath.Join(dir, vectorFilename(...)), a path being the
\* directory and the file name.
vectorPath(dirname, group, id, hints, v) ==
    <<dirname, vectorFilename(group, id, hints, v)>>

\* Group names and case IDs: any string can be one.
PathGroups == { <<"g">>, <<"h">>, <<"x", "-", "-", "g">> }

PathIDs == { <<"a">>, <<"b">> }

\* The program at rest, before any path was computed.
InitPaths ==
    /\ Init
    /\ OutputPath = <<"o">> /\ Mode = OverwriteNone /\ IncludeFilter.isNil
    /\ vectors = (<<"g">> :> <<1>>) @@ (<<"h">> :> <<2>>)
    /\ \A d \in Defs : defs[d].Hints = << >> /\ defs[d].gen = [v \in Versions |-> 1]
    /\ HasOneFunc(defs[2])

\* The write loop computes the paths of one more vector: tmp in the scratch
\* directory of its group, existing in the output directory, and the path
\* removePrevious removes. Group, case ID and first variant together are
\* those of no vector before it.
ComputePaths ==
    /\ Cardinality(ops) < 2
    /\ \E group \in PathGroups, id \in PathIDs, hints \in HintLists, v \in Versions :
          /\ \A o \in ops : <<o.group, o.id, o.variant>> # <<group, id, v>>
          /\ ops' = ops \cup
                { [ group |-> group, id |-> id, variant |-> v,
                    broken |-> IsBroken(hints),
                    tmp |-> vectorPath(<<"tmp", group>>, group, id, hints, v),
                    existing |-> vectorPath(OutputPath, group, id, hints, v),
                    previous |-> <<OutputPath, previousFilename(group, id, hints, v)>> ] }
    /\ UNCHANGED <<cfgVars, mainVars, groupVars, genVars, dir, stdout,
                   tmpFiles, dpc, cur, logs, ioFailures, crashed>>

NextPaths == ComputePaths

SpecPaths == InitPaths /\ [][NextPaths]_vars

\* ------------------------------------------------- vectorsEqual on its own

\* What a file at a final path can hold: a vector with any body, any
\* variants and the metadata of any build, or none.
ExistingContents ==
    [ body : Bodies,
      variants : { <<1>>, <<1, 2>>, <<2, 1>> },
      meta : [ ID : { <<"a">> }, Gen : { NoGen, "build0", "build1" } ] ]

\* The write loop of definition 1 has written the scratch file of a vector
\* and is about to look at the final path, where a file exists.
InitEqual ==
    /\ OutputPath = <<"o">>
    /\ run = "first"
    /\ flags \in [force : {FALSE}, update : BOOLEAN]
    /\ Mode = NewGeneratorMode(flags.force, flags.update)
    /\ IncludeFilter = [isNil |-> TRUE, matches |-> {}]
    /\ vectors = (<<"g">> :> <<1>>) @@ (<<"h">> :> <<2>>)
    /\ \E vs \in { <<1>>, <<1, 2>> }, body \in Bodies :
          /\ defs \in { f \in [Defs -> UNION {DefChoices(d) : d \in Defs} \cup
                                [ Metadata : {1}, SupportedVersions : {vs},
                                  Hints : { << >> }, MessageFunc : {TRUE},
                                  TipsetFunc : {FALSE}, gen : {[v \in Versions |-> body]} ]] :
                          /\ f[1].SupportedVersions = vs /\ f[1].gen[1] = body
                          /\ f[1].Hints = << >>
                          /\ f[2] \in DefChoices(2) /\ HasOneFunc(f[2]) }
          /\ sv = [d \in Defs |-> IF d = 1 THEN vs ELSE << >>]
          /\ result = [d \in Defs |-> IF d = 1
                          THEN [k \in 1 .. Len(vs) |-> Vector(body, <<vs[k]>>, 1)]
                          ELSE << >>]
          /\ variants = [d \in Defs |-> IF d = 1 THEN <<Vector(body, vs, 1)>> ELSE << >>]
          /\ heap = Len(vs)
          /\ builder = [d \in Defs |-> NoBuilder]
    /\ metadata = [d \in Defs |-> [ID |-> CaseID(d), Gen |-> IF d = 1 THEN genData ELSE NoGen]]
    /\ prev = [defs |-> defs, failures |-> 0]
    /\ cur = [d \in Defs |-> IF d = 1 THEN 1 ELSE 0]
    /\ dpc = [d \in Defs |-> IF d = 1 THEN "stat" ELSE "idle"]
    /\ tmpFiles = (<<"g">> :> (Filename(1) :> Marshal(Vec(1), metadata))) @@ (<<"h">> :> << >>)
    /\ \E b \in ExistingContents : dir = (Filename(1) :> b)
    /\ dir0 = dir
    /\ wg = 1
    /\ mainpc = "run"
    /\ gpc = (<<"g">> :> "running") @@ (<<"h">> :> "uncalled")
    /\ generate = (<<"g">> :> <<1>>) @@ (<<"h">> :> << >>)
    /\ tmpDir = (<<"g">> :> "exists") @@ (<<"h">> :> "none")
    /\ inner = (<<"g">> :> 1) @@ (<<"h">> :> 0)
    /\ logs = [d \in Defs |-> [v \in Versions |-> {}]]
    /\ ops = {}
    /\ stdout = << >>
    /\ ioFailures = 0
    /\ crashed = FALSE

NextEqual == CheckExisting(1)

SpecEqual == InitEqual /\ [][NextEqual]_vars

\* ---------------------------------------------- one run to its completion

\* What a run of an earlier build can have left in the output directory
\* for definition 1: nothing, or its vector for all three versions under
\* the unbroken or under the broken name, or under both (a run that moved
\* the file of a flipped definition into place and failed to remove the
\* previous one).
PriorDirs ==
    LET old == [body |-> 1, variants |-> KnownProtocolVersions,
                meta |-> [ID |-> CaseID(1), Gen |-> "build0"]]
        plain == vectorFilename(<<"g">>, CaseID(1), << >>, 1)
        broken == vectorFilename(<<"g">>, CaseID(1), <<HintIncorrect>>, 1)
    IN  { << >>, (plain :> old), (broken :> old),
          (plain :> old) @@ (broken :> old) }

\* NewGenerator without a filter, on an output directory an earlier run
\* may have filled.
InitLive ==
    /\ OutputPath \in { << >>, <<"o">> }
    /\ flags \in [force : BOOLEAN, update : BOOLEAN]
    /\ Mode = NewGeneratorMode(flags.force, flags.update)
    /\ IncludeFilter = [isNil |-> TRUE, matches |-> {}]
    /\ vectors \in Layouts
    /\ defs \in { f \in [Defs -> UNION {DefChoices(d) : d \in Defs}] :
                    \A d \in Defs : f[d] \in DefChoices(d) }
    /\ metadata = [d \in Defs |-> [ID |-> CaseID(d), Gen |-> NoGen]]
    /\ run = "first"
    /\ prev = [defs |-> defs, failures |-> 0]
    /\ dir \in PriorDirs
    /\ dir0 = dir
    /\ wg = 0
    /\ mainpc = "run"
    /\ gpc = [g \in GroupNames |-> "uncalled"]
    /\ generate = [g \in GroupNames |-> << >>]
    /\ tmpDir = [g \in GroupNames |-> "none"]
    /\ tmpFiles = [g \in GroupNames |-> << >>]
    /\ inner = [g \in GroupNames |-> 0]
    /\ dpc = [d \in Defs |-> "idle"]
    /\ sv = [d \in Defs |-> << >>]
    /\ result = [d \in Defs |-> << >>]
    /\ variants = [d \in Defs |-> << >>]
    /\ heap = 0
    /\ builder = [d \in Defs |-> NoBuilder]
    /\ cur = [d \in Defs |-> 0]
    /\ logs = [d \in Defs |-> [v \in Versions |-> {}]]
    /\ ops = {}
    /\ stdout = << >>
    /\ ioFailures = 0
    /\ crashed = FALSE

\* The steps of the calling goroutine: its Group calls, recovering a panic
\* of Group, and Close.
CallerStep ==
    \/ \E g \in GroupNames : GroupPanic(g) \/ GroupNoVectors(g) \/ GroupSpawn(g)
    \/ Recover \/ Close \/ CloseReturn

\* The steps of the goroutine of definition d when its generation function
\* returns.
DefStepReturning(d) ==
    \/ GenerateStart(d) \/ GenVersion(d) \/ Dedup(d)
    \/ Println(d)
    \/ WriteTmp(d) \/ OpenFail(d) \/ EncodeFail(d)
    \/ CheckExisting(d) \/ StatFail(d) \/ EqualFail(d)
    \/ Rename(d) \/ RenameFail(d)
    \/ RemovePrevious(d) \/ RemovePreviousFail(d)

NextLive ==
    \/ CallerStep
    \/ \E g \in GroupNames : GroupStep(g)
    \/ \E d \in Defs : DefStepReturning(d)

\* Every goroutine that can take a step is scheduled in the end, and the
\* caller goes on to its next call.
Fairness ==
    /\ WF_vars(CallerStep)
    /\ \A g \in GroupNames : WF_vars(GroupStep(g))
    /\ \A d \in Defs : WF_vars(DefStepReturning(d))

SpecLive == InitLive /\ [][NextLive]_vars /\ Fairness

\* ------------------------------------------------------------- the claims

\* generateVariants has returned for definition d.
Deduped(d) == dpc[d] \in {"print", "open", "stat", "rename", "remove", "done"}

\* Two vectors have the same content body: they differ at most in variants.
SameBody(a, b) == a.body = b.body /\ a.meta = b.meta

\* The variants of the vectors of res[1..n] with the body of v, in order.
RECURSIVE TagsWithBody(_, _, _)
TagsWithBody(res, n, v) ==
    IF n = 0 THEN << >>
    ELSE TagsWithBody(res, n - 1, v) \o
         (IF SameBody(res[n], v) THEN res[n].variants ELSE << >>)

\* C1: the vectors generateVariants returns have pairwise different content
\* bodies, every generated vector's body is the body of one of them, and the
\* variants of a returned vector are the variants of all generated vectors
\* with its body, in the order the supported versions were iterated.
C1_Deduplication ==
    \A d \in Defs : Deduped(d) =>
        LET out == variants[d]
            res == result[d]
        IN  /\ \A i, j \in 1 .. Len(out) : i # j => ~SameBody(out[i], out[j])
            /\ \A k \in 1 .. Len(res) : \E i \in 1 .. Len(out) : SameBody(out[i], res[k])
            /\ \A i \in 1 .. Len(out) :
                  out[i].variants = TagsWithBody(res, Len(res), out[i])

\* Versions 3 and 1 (iterated in that order) gave one body, version 2 another.
C1_Witness ==
    \E d \in Defs :
        /\ Deduped(d)
        /\ Len(result[d]) = 3 /\ Len(variants[d]) = 2
        /\ \E i \in 1 .. 2 : variants[d][i].variants = <<3, 1>>

\* The i-th vector generateVariants returned for d: its names, what the
\* write loop serializes, and what was logged for it.
NameOf(d, i) ==
    vectorFilename(GroupOf(d), metadata[defs[d].Metadata].ID, defs[d].Hints,
                   FirstVariant(variants[d][i].variants))

TwinOf(d, i) ==
    previousFilename(GroupOf(d), metadata[defs[d].Metadata].ID, defs[d].Hints,
                     FirstVariant(variants[d][i].variants))

BytesOf(d, i) == Marshal(variants[d][i], metadata)

LogOf(d, i) == logs[d][FirstVariant(variants[d][i].variants)]

\* The vectors of definition d, once generateVariants has returned.
Produced(d) == IF Deduped(d) THEN 1 .. Len(variants[d]) ELSE {}

\* The write loop is through with the i-th vector of d.
Processed(d, i) ==
    /\ ToDisk /\ i \in Produced(d)
    /\ dpc[d] = "done" \/ cur[d] > i

\* The messages of a failed I/O operation, and those that end a vector's
\* round of the loop without a write.
FailureLogs ==
    { "failed to open file", "failed to write json", "failed unexpectedly",
      "failed to check equality", "failed to move", "failed to remove previous" }

NoFailure(d, i) == LogOf(d, i) \cap FailureLogs = {}

\* Two file contents differ in something else than the metadata.
Differ(a, b) == a.body # b.body \/ a.variants # b.variants

RenamedInto(d, i) == [op |-> "rename", name |-> NameOf(d, i), def |-> d] \in ops

\* C2: a second run under OverwriteUpdate with the definitions of the first
\* run, on the directory a first run without I/O failure left, changes
\* nothing in the output directory, and every vector whose I/O succeeds is
\* skipped with "no changes".
C2_IdempotentUpdate ==
    (/\ run = "second" /\ Mode = OverwriteUpdate
     /\ defs = prev.defs /\ prev.failures = 0)
    => /\ ops = {}
       /\ dir = dir0
       /\ \A d \in Defs : \A i \in Produced(d) :
             Processed(d, i) /\ NoFailure(d, i) => LogOf(d, i) = {"no changes"}

\* The second run of an unchanged definition with two vectors has returned
\* from Close, both vectors skipped.
C2_Witness ==
    /\ run = "second" /\ Mode = OverwriteUpdate
    /\ defs = prev.defs /\ prev.failures = 0
    /\ mainpc = "closed"
    /\ \E d \in Defs :
          /\ dpc[d] = "done" /\ Len(variants[d]) = 2
          /\ \A i \in 1 .. 2 : LogOf(d, i) = {"no changes"} /\ NameOf(d, i) \in DOMAIN dir0

\* C3: under OverwriteNone a file that was at a vector's final path when the
\* run started, with a content differing from the vector, keeps its bytes
\* throughout the run; the vector is skipped with the warning.
C3_NoneKeepsExisting ==
    \A d \in Defs : \A i \in Produced(d) :
        (/\ ToDisk /\ Mode = OverwriteNone
         /\ NameOf(d, i) \in DOMAIN dir0
         /\ Differ(dir0[NameOf(d, i)], BytesOf(d, i)))
        => /\ NameOf(d, i) \in DOMAIN dir
           /\ dir[NameOf(d, i)] = dir0[NameOf(d, i)]
           /\ Processed(d, i) /\ NoFailure(d, i) => LogOf(d, i) = {"vector changed"}

C3_Witness ==
    \E d \in Defs : \E i \in Produced(d) :
        /\ Mode = OverwriteNone
        /\ NameOf(d, i) \in DOMAIN dir0
        /\ Differ(dir0[NameOf(d, i)], BytesOf(d, i))
        /\ Processed(d, i)
        /\ LogOf(d, i) = {"vector changed"}

\* C4: under OverwriteForce the equality of new and existing file is never
\* consulted, and every vector whose I/O succeeds is moved to its final path
\* and reported written, whatever was there.
C4_ForceWrites ==
    \A d \in Defs : \A i \in Produced(d) :
        Mode = OverwriteForce /\ Processed(d, i) =>
           /\ LogOf(d, i) \cap {"no changes", "vector changed", "overwriting",
                                "failed to check equality"} = {}
           /\ NoFailure(d, i) =>
                 /\ LogOf(d, i) = {"wrote"}
                 /\ RenamedInto(d, i)
                 /\ NameOf(d, i) \in DOMAIN dir
                 /\ dir[NameOf(d, i)] = BytesOf(d, i)

\* A vector equal to the file of the first run was written again.
C4_Witness ==
    \E d \in Defs : \E i \in Produced(d) :
        /\ Mode = OverwriteForce /\ Processed(d, i)
        /\ NameOf(d, i) \in DOMAIN dir0
        /\ ~Differ(dir0[NameOf(d, i)], BytesOf(d, i))
        /\ RenamedInto(d, i)

\* C5: the file with the broken marker and the file without it, of one
\* group, case ID and variant, are never both in the output directory; and
\* when a second run with the hint of a definition flipped has returned from
\* Close, each of its vectors has its file and no file at the twin name.
C5_StatusFlip ==
    /\ \A n \in DOMAIN dir : brokenVectorPrefix \o n \notin DOMAIN dir
    /\ \A d \in Defs : \A i \in Produced(d) :
          (/\ run = "second" /\ mainpc = "closed" /\ ToDisk
           /\ IsBroken(defs[d].Hints) # IsBroken(prev.defs[d].Hints))
          => NameOf(d, i) \in DOMAIN dir /\ TwinOf(d, i) \notin DOMAIN dir

\* C6: when the generation function of a definition has failed, every other
\* definition goroutine that is under way can still take its next step, and
\* every registered group goroutine can still start.
C6_FailureIsolated ==
    \A d \in Defs : dpc[d] = "failed" =>
        /\ \A e \in Defs \ {d} :
              dpc[e] \notin {"idle", "done", "failed"} => ENABLED DefStep(e)
        /\ \A g \in GroupNames : gpc[g] = "registered" => ENABLED GroupStep(g)

C8_SiblingGroupsUnaffected ==
    (/\ \E g \in GroupNames : gpc[g] = "panicked"
     /\ \A d \in Defs : dpc[d] # "failed")
    => /\ \A e \in Defs :
             dpc[e] \notin {"idle", "done", "failed"} => ENABLED DefStep(e)
       /\ \A h \in GroupNames :
             (gpc[h] = "registered" \/ (gpc[h] = "running" /\ inner[h] = 0))
             => ENABLED GroupStep(h)

\* The messages after which the write loop is through with a vector.
TerminalLogs ==
    { "wrote", "no changes", "vector changed", "failed to open file",
      "failed to write json", "failed unexpectedly", "failed to check equality" }

\* C9: once Close has returned no group goroutine is registered or running;
\* a group goroutine that has exited has no definition goroutine under way;
\* so when Close has returned every definition goroutine that was started
\* has returned and each of its vectors was written, skipped or failed.
C9_JoinSafety ==
    /\ mainpc = "closed" => \A g \in GroupNames : gpc[g] \notin {"registered", "running"}
    /\ \A g \in GroupNames : gpc[g] = "exited" =>
          \A i \in 1 .. Len(generate[g]) : dpc[generate[g][i]] \in {"idle", "done"}
    /\ mainpc = "closed" =>
          \A d \in Defs :
             /\ dpc[d] \in {"idle", "done"}
             /\ ToDisk => \A i \in Produced(d) : LogOf(d, i) \cap TerminalLogs # {}

\* Close has returned after the goroutines of two groups wrote their vectors.
C9_Witness ==
    /\ mainpc = "closed"
    /\ \A g \in GroupNames : gpc[g] = "exited"
    /\ \A d \in Defs : dpc[d] = "done" /\ \A i \in Produced(d) : "wrote" \in LogOf(d, i)

\* C10: with an output directory set, the scratch directory of a group does
\* not exist once its goroutine is over: it has exited, or it ended with the
\* process when the generation function of one of its definitions failed.
C10_ScratchReleased ==
    \A g \in GroupNames :
        (/\ ToDisk
         /\ \/ gpc[g] = "exited"
            \/ \E i \in 1 .. Len(generate[g]) : dpc[generate[g][i]] = "failed")
        => tmpDir[g] # "exists"

\* The names a definition can give its files, whatever the first variant.
NamesOf(d) ==
    { vectorFilename(GroupOf(d), metadata[defs[d].Metadata].ID, defs[d].Hints, v) :
        v \in Versions }

\* C11: as long as generateVariants has not returned for a definition,
\* nothing of it is in the scratch directory, on stdout, in the output
\* directory or in the log; when it has returned, a vector was generated for
\* every supported version, the vectors handed to the write loop are the
\* deduplicated ones, and every file moved and every document printed is
\* that of one of them, named after the first tag of its merged list.
C11_GenerateBeforePersist ==
    \A d \in Defs :
        /\ ~Deduped(d) =>
              /\ \A o \in ops : o.def # d
              /\ \A k \in 1 .. Len(stdout) : stdout[k].def # d
              /\ \A v \in Versions : logs[d][v] = {}
              /\ NamesOf(d) \cap DOMAIN tmpFiles[GroupOf(d)] = {}
        /\ Deduped(d) =>
              /\ sv[d] = supportedVersions(defs[d])
              /\ Len(result[d]) = Len(sv[d])
              /\ \A k \in 1 .. Len(result[d]) : result[d][k].variants = <<sv[d][k]>>
              /\ IsOrderingOf(variants[d], uniqAfter(result[d], Len(result[d]), metadata))
              /\ \A o \in ops : (o.def = d /\ o.op = "rename") =>
                    \E i \in Produced(d) : o.name = NameOf(d, i)
              /\ \A k \in 1 .. Len(stdout) : stdout[k].def = d =>
                    \E i \in Produced(d) : stdout[k].doc = BytesOf(d, i)
              /\ \A n \in NamesOf(d) \cap DOMAIN tmpFiles[GroupOf(d)] :
                    \E i \in Produced(d) : n = NameOf(d, i)

\* A vector merged from three versions was moved into the output directory
\* under the name of its first tag.
C11_Witness ==
    \E d \in Defs : \E i \in Produced(d) :
        /\ Len(result[d]) = 3
        /\ Len(variants[d][i].variants) = 3
        /\ RenamedInto(d, i)

\* The messages logged when opening or writing the scratch file, or the
\* stat of the final path, fails.
ArtifactFailures ==
    { "failed to open file", "failed to write json", "failed unexpectedly" }

\* The output directory holds at name n what it held when the run started.
Untouched(n) ==
    /\ n \in DOMAIN dir <=> n \in DOMAIN dir0
    /\ n \in DOMAIN dir => dir[n] = dir0[n]

\* No goroutine is held up: a definition goroutine under way, a registered
\* group goroutine, a group goroutine whose definitions have returned and a
\* Close whose counter is zero can each take a step.
NobodyStuck ==
    /\ \A e \in Defs : dpc[e] \notin {"idle", "done", "failed"} => ENABLED DefStep(e)
    /\ \A g \in GroupNames :
          (gpc[g] = "registered" \/ (gpc[g] = "running" /\ inner[g] = 0))
          => ENABLED GroupStep(g)
    /\ (mainpc = "waiting" /\ wg = 0) => ENABLED CloseReturn

\* C12: a vector for which OpenFile, Encode or Stat failed has that one
\* message logged and nothing else, no rename or removal was done for it and
\* its final and twin names hold what they held; the loop has gone on to the
\* next vector, the process is alive unless a generation function or an
\* unrecovered panic of Group ended it, no goroutine is held up, and when the definition's goroutine has returned
\* every other vector of it was written, skipped or failed.
C12_IOFailureIsolated ==
    \A d \in Defs : \A i \in Produced(d) :
        (ToDisk /\ LogOf(d, i) \cap ArtifactFailures # {}) =>
           /\ Cardinality(LogOf(d, i)) = 1
           /\ \A o \in ops : o.def = d => o.name \notin {NameOf(d, i), TwinOf(d, i)}
           /\ Untouched(NameOf(d, i)) /\ Untouched(TwinOf(d, i))
           /\ Processed(d, i)
           /\ crashed => \/ \E e \in Defs : dpc[e] = "failed"
                       \/ mainpc = "panicking"
           /\ ~crashed => NobodyStuck
           /\ dpc[d] = "done" =>
                 \A j \in Produced(d) : LogOf(d, j) \cap TerminalLogs # {}

\* Close has returned; one vector of a definition failed, another vector of
\* it and the vector of the other definition were written.
C12_Witness ==
    /\ mainpc = "closed"
    /\ \E d \in Defs : \E i, j \in Produced(d) :
          /\ LogOf(d, i) \cap ArtifactFailures # {}
          /\ "wrote" \in LogOf(d, j)
          /\ \E e \in Defs \ {d} : \E k \in Produced(e) : "wrote" \in LogOf(e, k)

\* C13: two vectors of one run that differ in group, case ID, first variant
\* or broken status have different scratch paths and different final paths,
\* and the path removePrevious removes for one is not the final path of the
\* other.
C13_DisjointTargets ==
    \A a, b \in ops : a # b =>
        /\ a.tmp # b.tmp
        /\ a.existing # b.existing
        /\ a.previous # b.existing

\* The positions of stdout that hold the document doc of definition d.
PrintedAt(d, doc) == { k \in 1 .. Len(stdout) : stdout[k] = [def |-> d, doc |-> doc] }

\* C14: with an empty output path no scratch directory is created, no
\* scratch file and no output file is written, moved or removed and the
\* write loop is never entered; a definition whose goroutine has returned
\* has printed each vector generateVariants returned exactly once, and no
\* definition ever has more documents on stdout than vectors, or one of
\* them twice.
C14_StdoutOnly ==
    OutputPath = << >> =>
        /\ dir = dir0 /\ ops = {}
        /\ \A g \in GroupNames : tmpDir[g] = "none" /\ tmpFiles[g] = << >>
        /\ \A d \in Defs :
              /\ dpc[d] \notin {"open", "stat", "rename", "remove"}
              /\ \A v \in Versions : logs[d][v] = {}
              /\ \A i \in Produced(d) :
                    /\ Cardinality(PrintedAt(d, BytesOf(d, i))) <= 1
                    /\ dpc[d] = "done" => Cardinality(PrintedAt(d, BytesOf(d, i))) = 1
              /\ Cardinality({ k \in 1 .. Len(stdout) : stdout[k].def = d })
                    <= Len(variants[d])

\* Close has returned after two definitions printed three documents.
C14_Witness ==
    /\ OutputPath = << >> /\ mainpc = "closed"
    /\ \A d \in Defs : dpc[d] = "done"
    /\ Len(stdout) = 3

\* The filter lets definition d of group g through: there is none, or it
\* matches the case ID, or it matches the group name.
Passes(d, g) ==
    \/ IncludeFilter.isNil
    \/ metadata[defs[d].Metadata].ID \in IncludeFilter.matches
    \/ g \in IncludeFilter.matches

\* Nothing of definition d was generated, logged, printed or written.
Untried(d) ==
    /\ dpc[d] = "idle" /\ sv[d] = << >> /\ result[d] = << >> /\ variants[d] = << >>
    /\ metadata[defs[d].Metadata].Gen = NoGen
    /\ \A v \in Versions : logs[d][v] = {}
    /\ \A o \in ops : o.def # d
    /\ \A k \in 1 .. Len(stdout) : stdout[k].def # d

IgnoresVersion(d) == \A v, w \in Versions : defs[d].gen[v] = defs[d].gen[w]

\* C16: a definition with an empty SupportedVersions is generated once for
\* each known protocol version, in their order; if its generation function
\* ignores the version, generateVariants returns one vector tagged with all
\* known versions, at most one file is moved for the definition, and when
\* the write loop has written it without failure it is in the output
\* directory with all the tags (in a first run as the definition's one file).
C16_DefaultVersionsCollapse ==
    \A d \in Defs : Len(defs[d].SupportedVersions) = 0 =>
        /\ dpc[d] \notin {"idle", "start"} => sv[d] = KnownProtocolVersions
        /\ Deduped(d) =>
              /\ Len(result[d]) = Len(KnownProtocolVersions)
              /\ \A k \in 1 .. Len(result[d]) :
                    result[d][k].variants = <<KnownProtocolVersions[k]>>
        /\ (Deduped(d) /\ IgnoresVersion(d)) =>
              /\ Len(variants[d]) = 1
              /\ variants[d][1].variants = KnownProtocolVersions
              /\ Cardinality({ o \in ops : o.def = d /\ o.op = "rename" }) <= 1
              /\ (ToDisk /\ Processed(d, 1) /\ LogOf(d, 1) = {"wrote"}) =>
                    /\ NameOf(d, 1) \in DOMAIN dir
                    /\ dir[NameOf(d, 1)].variants = KnownProtocolVersions
                    /\ run = "first" => NamesOf(d) \cap DOMAIN dir = {NameOf(d, 1)}

\* The first run has returned from Close; the definition without supported
\* versions, with a function ignoring the version, has one file, tagged with
\* the three known versions.
C16_Witness ==
    /\ run = "first" /\ mainpc = "closed"
    /\ \E d \in Defs :
          /\ defs[d].SupportedVersions = << >> /\ IgnoresVersion(d)
          /\ dpc[d] = "done" /\ LogOf(d, 1) = {"wrote"}
          /\ Len(dir[NameOf(d, 1)].variants) = 3
          /\ NamesOf(d) \cap DOMAIN dir = {NameOf(d, 1)}

\* C17: a vector with no file at its final path when the run started, and
\* no failed I/O call, is moved into place and reported written under each
\* of the three modes, and afterwards no file is at the twin name: one that
\* was there has been removed.
C17_NewFileWritten ==
    \A d \in Defs : \A i \in Produced(d) :
        (/\ ToDisk /\ Processed(d, i) /\ NoFailure(d, i)
         /\ NameOf(d, i) \notin DOMAIN dir0)
        => /\ LogOf(d, i) = {"wrote"}
           /\ RenamedInto(d, i)
           /\ NameOf(d, i) \in DOMAIN dir /\ dir[NameOf(d, i)] = BytesOf(d, i)
           /\ TwinOf(d, i) \notin DOMAIN dir
           /\ TwinOf(d, i) \in DOMAIN dir0 =>
                 [op |-> "remove", name |-> TwinOf(d, i), def |-> d] \in ops

\* Under OverwriteNone, a vector whose hint was flipped since the first run
\* was written under its new name and the file of the first run removed.
C17_Witness ==
    \E d \in Defs : \E i \in Produced(d) :
        /\ Mode = OverwriteNone /\ Processed(d, i)
        /\ NameOf(d, i) \notin DOMAIN dir0 /\ TwinOf(d, i) \in DOMAIN dir0
        /\ LogOf(d, i) = {"wrote"}
        /\ NameOf(d, i) \in DOMAIN dir /\ TwinOf(d, i) \notin DOMAIN dir

\* The scratch file and the existing file the write loop of definition 1
\* compares.
NewFile == tmpFiles[GroupOf(1)][NameOf(1, 1)]

ExistingFile == dir[NameOf(1, 1)]

\* C18: vectorsEqual is true exactly when the two vectors agree in every
\* field but the metadata, the variants included; and the switch of the
\* write loop reports "no changes" exactly for such a pair.
C18_EqualIgnoresMeta ==
    /\ vectorsEqualContents(NewFile, ExistingFile)
          <=> (NewFile.body = ExistingFile.body
               /\ NewFile.variants = ExistingFile.variants)
    /\ dpc[1] # "stat" =>
          ("no changes" \in LogOf(1, 1) <=> ~Differ(NewFile, ExistingFile))

\* Two vectors that differ in the metadata only were compared and found
\* equal.
C18_Witness ==
    /\ dpc[1] # "stat"
    /\ NewFile.meta # ExistingFile.meta
    /\ ~Differ(NewFile, ExistingFile)
    /\ "no changes" \in LogOf(1, 1)

\* C19: a vector for which vectorsEqual returned an error (only under
\* OverwriteNone and OverwriteUpdate, with a file at the final path) has
\* that one message logged, was not moved into place, its existing file and
\* its twin name hold what they held when the run started, and the loop has
\* gone on: no goroutine is held up, and when the definition's goroutine has
\* returned every other vector of it was written, skipped or failed.
C19_EqualityErrorSkips ==
    \A d \in Defs : \A i \in Produced(d) :
        "failed to check equality" \in LogOf(d, i) =>
           /\ Mode \in {OverwriteNone, OverwriteUpdate}
           /\ LogOf(d, i) = {"failed to check equality"}
           /\ \A o \in ops : o.def = d => o.name \notin {NameOf(d, i), TwinOf(d, i)}
           /\ NameOf(d, i) \in DOMAIN dir
           /\ Untouched(NameOf(d, i)) /\ Untouched(TwinOf(d, i))
           /\ Processed(d, i)
           /\ ~crashed => NobodyStuck
           /\ dpc[d] = "done" =>
                 \A j \in Produced(d) : LogOf(d, j) \cap TerminalLogs # {}

\* Close has returned; the comparison failed for one vector of a
\* definition, and another vector of it was skipped or written.
C19_Witness ==
    /\ mainpc = "closed"
    /\ \E d \in Defs : \E i, j \in Produced(d) :
          /\ LogOf(d, i) = {"failed to check equality"}
          /\ i # j
          /\ LogOf(d, j) \cap {"no changes", "vector changed", "wrote"} # {}

\* Every definition given to Group for g is valid and none gets through the
\* filter (or none was given).
NoSurvivor(g) ==
    \A i \in 1 .. Len(vectors[g]) :
        HasOneFunc(defs[vectors[g][i]]) /\ ~Passes(vectors[g][i], g)

\* C20: a group none of whose definitions survives validation and filtering
\* is never registered with g.wg, never gets a goroutine or a scratch
\* directory, and none of its definitions is generated, logged, printed or
\* written.
C20_EmptyGroupNoWork ==
    \A g \in GroupNames : NoSurvivor(g) =>
        /\ gpc[g] \in {"uncalled", "empty"}
        /\ generate[g] = << >> /\ inner[g] = 0
        /\ tmpDir[g] = "none" /\ tmpFiles[g] = << >>
        /\ wg <= Cardinality({h \in GroupNames \ {g} : gpc[h] \in {"registered", "running"}})
        /\ \A i \in 1 .. Len(vectors[g]) : Untried(vectors[g][i])

\* Group has returned for a group whose two definitions the filter dropped,
\* and Close has returned.
C20_Witness ==
    \E g \in GroupNames :
        /\ NoSurvivor(g) /\ Len(vectors[g]) = 2
        /\ gpc[g] = "empty" /\ mainpc = "closed"

\* The terminal state of the i-th vector of d, from what was logged for it:
\* FAILED when an I/O call failed, else WRITTEN or SKIPPED.
Terminal(d, i) ==
    IF LogOf(d, i) \cap (FailureLogs \ {"failed to remove previous"}) # {} THEN "FAILED"
    ELSE IF "wrote" \in LogOf(d, i) THEN "WRITTEN"
    ELSE IF LogOf(d, i) \cap {"no changes", "vector changed"} # {} THEN "SKIPPED"
    ELSE "none"

\* Close has returned with every goroutine over and every vector terminal.
Completed ==
    /\ mainpc = "closed" /\ wg = 0
    /\ \A g \in GroupNames : gpc[g] \in {"panicked", "empty", "exited"}
    /\ \A d \in Defs :
          /\ dpc[d] \in {"idle", "done"}
          /\ ToDisk => \A i \in Produced(d) : Terminal(d, i) # "none"

\* C21: when the generation functions return and the caller makes its
\* calls, under fair scheduling Close returns in the end, with every group
\* goroutine and definition goroutine over and every vector written,
\* skipped or failed; and it stays so.
C21_Completion == <>[]Completed

\* Close has returned after two group goroutines wrote their vectors.
C21_Witness ==
    /\ Completed
    /\ \A g \in GroupNames : gpc[g] = "exited"
    /\ \A d \in Defs : \E i \in Produced(d) : Terminal(d, i) = "WRITTEN"

\* The mode the options stand for: -f gives OverwriteForce whatever -u is,
\* -u alone OverwriteUpdate, neither OverwriteNone.
ModeOfFlags ==
    /\ flags.force => Mode = OverwriteForce
    /\ (~flags.force /\ flags.update) => Mode = OverwriteUpdate
    /\ (~flags.force /\ ~flags.update) => Mode = OverwriteNone

\* C22: g.Mode is the mode the options given to NewGenerator stand for, in
\* every state of the run, and no step of the run changes it.
C22_PolicySelection == []ModeOfFlags /\ [][Mode' = Mode]_vars

\* With -f and -u both set, a run in OverwriteForce has overwritten the file
\* of an earlier build and Close has returned.
C22_Witness ==
    /\ flags.force /\ flags.update /\ Mode = OverwriteForce
    /\ mainpc = "closed"
    /\ \E d \in Defs : \E i \in Produced(d) :
          NameOf(d, i) \in DOMAIN dir0 /\ RenamedInto(d, i)

\* C23: a vector whose os.Rename failed is not reported written, no file
\* was removed at its twin name, and its final and twin names hold what they
\* held when the run started.
C23_RenameFailureSkips ==
    \A d \in Defs : \A i \in Produced(d) :
        "failed to move" \in LogOf(d, i) =>
           /\ "wrote" \notin LogOf(d, i)
           /\ [op |-> "remove", name |-> TwinOf(d, i), def |-> d] \notin ops
           /\ Untouched(NameOf(d, i)) /\ Untouched(TwinOf(d, i))

\* <group>--<caseID>--<tag>.json
BaseName(group, id, v) == group \o Sep \o id \o Sep \o VersionID(v) \o JsonExt

\* C24: the path removePrevious removes for a vector is the name of its
\* group, case ID and first variant with the marker prepended when the
\* definition is not marked incorrect and without the marker when it is; it
\* is not the vector's own final path, and not a final path of another
\* group, case ID or variant.
C24_TwinName ==
    \A a \in ops :
        /\ a.previous =
              <<OutputPath,
                IF a.broken THEN BaseName(a.group, a.id, a.variant)
                ELSE brokenVectorPrefix \o BaseName(a.group, a.id, a.variant)>>
        /\ a.previous # a.existing
        /\ \A g \in PathGroups, id \in PathIDs, v \in Versions, h \in HintLists :
              <<g, id, v>> # <<a.group, a.id, a.variant>>
              => a.previous # vectorPath(OutputPath, g, id, h, v)

\* C25: under OverwriteNone every file that was in the output directory
\* when the run started is there with the same bytes, in every state of the
\* run.
C25_NoneKeepsAllFiles ==
    Mode = OverwriteNone =>
        \A n \in DOMAIN dir0 : n \in DOMAIN dir /\ dir[n] = dir0[n]

\* C26: under OverwriteUpdate a vector whose final path held, when the run
\* started, a file differing from it in something else than the metadata,
\* and none of whose I/O calls failed, is announced as overwriting, moved
\* into place and reported written: the final path holds the new content
\* and no file is at the twin name.
C26_UpdateOverwrites ==
    \A d \in Defs : \A i \in Produced(d) :
        (/\ ToDisk /\ Mode = OverwriteUpdate
         /\ Processed(d, i) /\ NoFailure(d, i)
         /\ NameOf(d, i) \in DOMAIN dir0
         /\ Differ(dir0[NameOf(d, i)], BytesOf(d, i)))
        => /\ LogOf(d, i) = {"overwriting", "wrote"}
           /\ RenamedInto(d, i)
           /\ NameOf(d, i) \in DOMAIN dir /\ dir[NameOf(d, i)] = BytesOf(d, i)
           /\ TwinOf(d, i) \notin DOMAIN dir

\* A vector that stands for fewer variants than the file the first run
\* left at its final path has replaced that file.
C26_Witness ==
    \E d \in Defs : \E i \in Produced(d) :
        /\ Mode = OverwriteUpdate /\ Processed(d, i)
        /\ NameOf(d, i) \in DOMAIN dir0
        /\ Len(dir0[NameOf(d, i)].variants) > Len(BytesOf(d, i).variants)
        /\ LogOf(d, i) = {"overwriting", "wrote"}
        /\ dir[NameOf(d, i)] = BytesOf(d, i)
        /\ TwinOf(d, i) \notin DOMAIN dir

\* The position, in the list of supported versions, of the first generated
\* vector with the body of the i-th returned vector of d.
EarliestOf(d, i) ==
    CHOOSE k \in 1 .. Len(result[d]) :
        /\ SameBody(result[d][k], variants[d][i])
        /\ \A j \in 1 .. k - 1 : ~SameBody(result[d][j], variants[d][i])

C28_DefinitionsImmutable ==
    \A d \in Defs :
        metadata[defs[d].Metadata] = [ID |-> CaseID(d), Gen |-> NoGen]

\* The definitions that are in a round of the loop over their versions.
Building == { d \in Defs : builder[d] # NoBuilder }

\* C29: every round of the loop over the supported versions hands the
\* generation function a builder created in that round, one that no earlier
\* round of any definition was given; so at no time do two definitions hold
\* the same builder, however their goroutines interleave.
C29_IsolatedBuilders ==
    /\ [](\A d, e \in Building : d # e => builder[d] # builder[e])
    /\ [][\A d \in Defs :
             (builder'[d] # builder[d] /\ builder'[d] # NoBuilder)
             => /\ builder'[d] > heap
                /\ \A e \in Defs \ {d} : builder'[d] # builder'[e]]_vars

\* Two definitions of one group are both in their loops, definition 1 in its
\* third round, with a builder created after that of definition 2.
C29_Witness ==
    /\ Building = Defs
    /\ GroupOf(1) = GroupOf(2)
    /\ Len(result[1]) = 3
    /\ builder[1] > builder[2]
    /\ heap = 4

\* The places of tag v in the variant lists of the vectors returned for d.
PlacesOf(d, v) ==
    { p \in (1 .. Len(variants[d])) \X (1 .. Len(KnownProtocolVersions)) :
        /\ p[2] <= Len(variants[d][p[1]].variants)
        /\ variants[d][p[1]].variants[p[2]] = v }

\* C30: when generateVariants has returned, the tag of every supported
\* version is at exactly one place of the variant lists of the vectors
\* returned, in a vector with the body generated for that version; the lists
\* hold no other tag; and as many vectors are returned as distinct bodies
\* were generated.
C30_TagsPartitioned ==
    \A d \in Defs : Deduped(d) =>
        /\ \A k \in 1 .. Len(sv[d]) :
              /\ Cardinality(PlacesOf(d, sv[d][k])) = 1
              /\ \A p \in PlacesOf(d, sv[d][k]) : SameBody(variants[d][p[1]], result[d][k])
        /\ \A v \in Versions : PlacesOf(d, v) # {} => v \in Range(sv[d])
        /\ Len(variants[d]) = Cardinality({ result[d][k].body : k \in 1 .. Len(result[d]) })

\* Versions 1, 3, 2, supported in that order: 1 and 2 gave one body and 3
\* another, and two vectors were returned, tagged 1, 2 and 3.
C30_Witness ==
    \E d \in Defs :
        /\ Deduped(d) /\ sv[d] = <<1, 3, 2>>
        /\ Len(variants[d]) = 2
        /\ { variants[d][i].variants : i \in 1 .. 2 } = { <<1, 2>>, <<3>> }

\* No rename into and no removal of name n was done for definition d.
NoOpOn(d, n) == \A o \in ops : ~(o.def = d /\ o.name = n)

\* C31: a vector that finds at its final path a file equal to it (metadata
\* set aside) under OverwriteNone or OverwriteUpdate, or any file under
\* OverwriteNone, and none of whose I/O calls fails, is skipped: whatever
\* step its round of the loop is at, the final path and the twin name hold
\* what they held when the run started, nothing was moved to or removed from
\* them, and once the round is over the one message logged is that of the skip.
C31_SkipChangesNothing ==
    \A d \in Defs : \A i \in Produced(d) :
        (/\ ToDisk /\ NoFailure(d, i)
         /\ NameOf(d, i) \in DOMAIN dir0
         /\ \/ Mode = OverwriteNone
            \/ Mode = OverwriteUpdate /\ ~Differ(dir0[NameOf(d, i)], BytesOf(d, i)))
        => /\ Untouched(NameOf(d, i)) /\ Untouched(TwinOf(d, i))
           /\ NoOpOn(d, NameOf(d, i)) /\ NoOpOn(d, TwinOf(d, i))
           /\ Processed(d, i) =>
                 LogOf(d, i) = IF Differ(dir0[NameOf(d, i)], BytesOf(d, i))
                               THEN {"vector changed"} ELSE {"no changes"}

\* Under OverwriteUpdate the vector of all three versions was skipped as
\* equal to the file an earlier build left, whose generation data differ.
C31_Witness ==
    \E d \in Defs : \E i \in Produced(d) :
        /\ Mode = OverwriteUpdate /\ Processed(d, i)
        /\ NameOf(d, i) \in DOMAIN dir0
        /\ dir0[NameOf(d, i)] # BytesOf(d, i)
        /\ LogOf(d, i) = {"no changes"}
        /\ dir = dir0

\* C32: when a run under OverwriteUpdate or OverwriteForce in which no I/O
\* call failed has returned from Close, every vector generated in it has at
\* its final path a file equal to it (metadata set aside), and no file is at
\* its twin name.
C32_Convergence ==
    (/\ ToDisk /\ Mode \in {OverwriteUpdate, OverwriteForce}
     /\ mainpc = "closed" /\ ioFailures = 0)
    => \A d \in Defs : \A i \in Produced(d) :
          /\ NameOf(d, i) \in DOMAIN dir
          /\ ~Differ(dir[NameOf(d, i)], BytesOf(d, i))
          /\ TwinOf(d, i) \notin DOMAIN dir

\* ------------------------------------------- Group's validation on its own

\* Definitions with none, one or both of the generation functions.
FuncChoices ==
    [ Metadata : Defs, SupportedVersions : { <<1>> }, Hints : { << >> },
      MessageFunc : BOOLEAN, TipsetFunc : BOOLEAN,
      gen : { [v \in Versions |-> 1] } ]

\* The definitions in one Group call in either order, or in two calls.
ValidateLayouts ==
    Layouts \cup { (<<"g">> :> <<2, 1>>) @@ (<<"h">> :> << >>) }

\* NewGenerator with any of the filters, before the Group calls.
InitValidate ==
    /\ OutputPath = <<"o">>
    /\ flags = [force |-> FALSE, update |-> FALSE]
    /\ Mode = NewGeneratorMode(flags.force, flags.update)
    /\ IncludeFilter \in Filters
    /\ vectors \in ValidateLayouts
    /\ defs \in { f \in [Defs -> FuncChoices] : \A d \in Defs : f[d].Metadata = d }
    /\ metadata = [d \in Defs |-> [ID |-> CaseID(d), Gen |-> NoGen]]
    /\ run = "first"
    /\ prev = [defs |-> defs, failures |-> 0]
    /\ dir = << >>
    /\ dir0 = dir
    /\ wg = 0
    /\ mainpc = "run"
    /\ gpc = [g \in GroupNames |-> "uncalled"]
    /\ generate = [g \in GroupNames |-> << >>]
    /\ tmpDir = [g \in GroupNames |-> "none"]
    /\ tmpFiles = [g \in GroupNames |-> << >>]
    /\ inner = [g \in GroupNames |-> 0]
    /\ dpc = [d \in Defs |-> "idle"]
    /\ sv = [d \in Defs |-> << >>]
    /\ result = [d \in Defs |-> << >>]
    /\ variants = [d \in Defs |-> << >>]
    /\ heap = 0
    /\ builder = [d \in Defs |-> NoBuilder]
    /\ cur = [d \in Defs |-> 0]
    /\ logs = [d \in Defs |-> [v \in Versions |-> {}]]
    /\ ops = {}
    /\ stdout = << >>
    /\ ioFailures = 0
    /\ crashed = FALSE

\* The Group calls of the caller, which recovers their panics.
NextValidate ==
    \/ \E g \in GroupNames : GroupPanic(g) \/ GroupNoVectors(g) \/ GroupSpawn(g)
    \/ Recover

SpecValidate == InitValidate /\ [][NextValidate]_vars

\* Some definition handed to Group(g, ...) has no or two generation functions.
HasInvalid(g) == \E i \in 1 .. Len(vectors[g]) : ~HasOneFunc(defs[vectors[g][i]])

\* C33: a Group call given a definition with no or with two generation
\* functions panics, wherever the definition is in the list and whether or
\* not the filter lets it through: the call can do nothing but panic, and
\* the group is never found empty, registered or given a generate slice.
C33_ValidationNotShadowed ==
    \A g \in GroupNames : HasInvalid(g) =>
        /\ gpc[g] \in {"uncalled", "panicked"}
        /\ generate[g] = << >>
        /\ Validated(g).panic
        /\ (gpc[g] = "uncalled" /\ mainpc = "run") => ENABLED GroupPanic(g)

\* Group panicked over a first definition without generation function that
\* the filter does not let through, followed by a valid one that it does.
C33_Witness ==
    \E g \in GroupNames :
        /\ gpc[g] = "panicked" /\ Len(vectors[g]) = 2
        /\ LET d == vectors[g][1]
               e == vectors[g][2]
           IN  /\ ~defs[d].MessageFunc /\ ~defs[d].TipsetFunc
               /\ ~Passes(d, g)
               /\ HasOneFunc(defs[e]) /\ Passes(e, g)

\* The goroutine of group g returned because ioutil.TempDir failed.
NoScratch(g) == ToDisk /\ gpc[g] = "exited" /\ tmpDir[g] = "none"

\* C34: when the goroutine of a group could not create its scratch
\* directory, none of the group's definitions was started, generated,
\* logged or written and the files of their names are as they were; the
\* goroutine is no longer counted by g.wg, so Close returns as soon as the
\* other group goroutines are over; and the goroutines of the other groups
\* can each take their next step.
C34_ScratchFailure ==
    \A g \in GroupNames : NoScratch(g) =>
        /\ \A i \in 1 .. Len(generate[g]) :
              LET d == generate[g][i]
              IN  /\ Untried(d) /\ builder[d] = NoBuilder
                  /\ \A n \in NamesOf(d) : Untouched(n)
        /\ tmpFiles[g] = << >> /\ inner[g] = 0
        /\ wg = Cardinality({ h \in GroupNames : gpc[h] \in {"registered", "running"} })
        /\ NobodyStuck

\* The goroutine of g got no scratch directory; the definition of the other
\* group was written and Close has returned.
C34_Witness ==
    \E g, h \in GroupNames :
        /\ g # h /\ NoScratch(g) /\ Len(generate[g]) = 1
        /\ gpc[h] = "exited" /\ Len(generate[h]) = 1
        /\ "wrote" \in LogOf(generate[h][1], 1)
        /\ NameOf(generate[h][1], 1) \in DOMAIN dir
        /\ mainpc = "closed"

====
